---- MODULE Spec2Model ----
(***************************************************************************)
(* Lifecycle of the full client (client/src/full/mod.rs): start, the usage *)
(* reporter thread, the CtrlC handler, run_until_closed, close and         *)
(* wait_for_drop.                                                          *)
(*                                                                         *)
(* Time is simulated in whole seconds.  thread::sleep and the timeout of   *)
(* Condvar::wait_for take exactly their duration; every other statement    *)
(* of the reporter and of wait_for_drop takes no time (Tick is disabled    *)
(* while one of them is runnable).  The mining loop, the transaction       *)
(* generator, the handler and the other statements of the main task take   *)
(* an arbitrary time.                                                      *)
(***************************************************************************)
EXTENDS Integers, FiniteSets, Sequences, TLC

\* ---------------------------------------------------------------- constants
\* wait_for_drop: Duration::from_secs(1), (10), (60)
sleep_duration == 1
warn_timeout == 10
max_timeout == 60
\* usage reporter: Duration::from_millis(5000), in seconds
report_interval == 5

\* ------------------------------------------------------------------- bounds
\* external interrupts delivered to the CtrlC handler
MaxInterrupts == 2
\* records in the test-chain file
MaxRecords == 3
\* cap of the two tick observers (one more than report_interval)
MaxObserved == 6

VARIABLES
    exit_flag,          \* exit.0 : Mutex<bool>, the protected value
    exit_mutex,         \* holder of exit.0 : "free", "main" or "reporter"
    main_pc,            \* position of the main task
    conf,               \* raw_conf.start_mining, tx_conf.generate_tx
    handler_installed,  \* CtrlC::set_handler has run
    strong,             \* owners that keep the data manager (hence the
                        \* storage manager and ledger_db) alive
    txgen_join_handle,  \* handle.txgen_join_handle is Some and not dropped
    bg_state,           \* BlockGenerator mining state
    mining_pc,          \* "none", "mining", "exited"
    txgen_pc,           \* "none", "running", "exited"
    rep_pc,             \* position of the usage reporter thread
    rep_timer,          \* seconds spent in the current wait_for
    rep_manager,        \* reporter holds the upgraded Arc<StorageManager>
    hnd_pc,             \* CtrlC handler thread: "idle", "lock", "notify"
    interrupts,         \* interrupts delivered so far
    elapsed,            \* instant.elapsed() in wait_for_drop
    warned,             \* local `warned` of wait_for_drop
    \* ---- observers (log output and history), not read by the program
    final_warned,       \* "Shutdown timeout reached" was logged
    polled,             \* w.upgrade() was evaluated at least once
    alive_at_return,    \* ledger_db still alive when wait_for_drop returned
    released,           \* the storage manager has been destroyed
    dropped_at,         \* value of elapsed when it was destroyed, else -1
    ticks_since_release,\* seconds since release while the reporter runs
    ticks_since_exit,   \* seconds since exit_flag while the reporter runs
    snap_after_exit,    \* a usage snapshot was logged while exit_flag
    snap_after_release, \* a usage snapshot was logged after the release
    warnings,           \* "Shutdown is taking longer" lines of this close
    \* ---- FullClient::start in stages (StartSpec)
    start_in,           \* inputs of start: the stage whose collaborator
                        \* fails, mining_author is Some, test_chain_path
                        \* is Some, the records of the file (convertible?)
    start_pc,           \* stage start is at
    start_outcome,      \* "running", "ok", "err" or "panic"
    blockgen_built,     \* BlockGenerator::new has run
    replay_next,        \* position of the replay iterator in rpc_blocks
    submitted           \* records given to sync.on_mined_block, in order

vars == << exit_flag, exit_mutex, main_pc, conf, handler_installed, strong,
           txgen_join_handle, bg_state, mining_pc, txgen_pc, rep_pc,
           rep_timer, rep_manager, hnd_pc, interrupts, elapsed, warned,
           final_warned, polled, alive_at_return, released, dropped_at,
           ticks_since_release, ticks_since_exit, snap_after_exit,
           snap_after_release, warnings, start_in, start_pc, start_outcome,
           blockgen_built, replay_next, submitted >>

startVars == << start_in, start_pc, start_outcome, blockgen_built,
                replay_next, submitted >>

Min(a, b) == IF a < b THEN a ELSE b

\* ------------------------------------------------------------ ownership
\* Arc<StorageManager>: owned by the data manager (kept alive by `strong`)
\* and, while a snapshot is taken, by the reporter's upgraded reference.
AliveOf(s, m) == s # {} \/ m

StorageManagerAlive == AliveOf(strong, rep_manager)

\* Arc<SystemDB>: cloned into the storage manager and the data manager; the
\* local `ledger_db` of start is gone once start has returned.
LedgerDbAlive == strong # {} \/ StorageManagerAlive

\* The owning references of the handle that into_be_dropped splits off.
HandleBlockgen == {"handle.blockgen"}

HandleToDrop == {"handle.to_drop"}

\* History of the release of the storage manager, given the new owners.
NoteRelease(s, m) ==
    /\ released' = (released \/ ~AliveOf(s, m))
    /\ dropped_at' = IF ~released /\ ~AliveOf(s, m) THEN elapsed
                     ELSE dropped_at

Init ==
    /\ exit_flag = FALSE
    /\ exit_mutex = "free"
    /\ main_pc = "init"
    /\ conf = [start_mining |-> FALSE, generate_tx |-> FALSE]
    /\ handler_installed = FALSE
    /\ strong = {}
    /\ txgen_join_handle = FALSE
    /\ bg_state = "Start"
    /\ mining_pc = "none"
    /\ txgen_pc = "none"
    /\ rep_pc = "none"
    /\ rep_timer = 0
    /\ rep_manager = FALSE
    /\ hnd_pc = "idle"
    /\ interrupts = 0
    /\ elapsed = 0
    /\ warned = FALSE
    /\ final_warned = FALSE
    /\ polled = FALSE
    /\ alive_at_return = FALSE
    /\ released = FALSE
    /\ dropped_at = -1
    /\ ticks_since_release = 0
    /\ ticks_since_exit = 0
    /\ snap_after_exit = FALSE
    /\ snap_after_release = FALSE
    /\ warnings = 0
    /\ start_in = [failing |-> "none", mining_author |-> TRUE,
                   test_chain |-> FALSE, rpc_blocks |-> << >>]
    /\ start_pc = "entry"
    /\ start_outcome = "running"
    /\ blockgen_built = FALSE
    /\ replay_next = 0
    /\ submitted = << >>

obsVars == << final_warned, polled, alive_at_return, released, dropped_at,
              ticks_since_release, ticks_since_exit, snap_after_exit,
              snap_after_release >>

\* ------------------------------------------------------------------ start
\* A successful start: the reporter thread is spawned, the mining and the
\* txgen threads are spawned when configured, the handle is returned.
Start ==
    /\ main_pc = "init"
    /\ \E m \in BOOLEAN, g \in BOOLEAN :
        /\ conf' = [start_mining |-> m, generate_tx |-> g]
        /\ strong' = HandleBlockgen \cup HandleToDrop
                     \cup (IF m THEN {"mining.bg"} ELSE {})
                     \cup (IF g THEN {"txgen.txgen_clone"} ELSE {})
        /\ mining_pc' = IF m THEN "mining" ELSE "none"
        /\ txgen_pc' = IF g THEN "running" ELSE "none"
        /\ txgen_join_handle' = g
    /\ rep_pc' = "lock"
    /\ main_pc' = "started"
    /\ start_pc' = "returned"
    /\ start_outcome' = "ok"
    /\ blockgen_built' = TRUE
    /\ UNCHANGED << exit_flag, exit_mutex, handler_installed, bg_state,
                    rep_timer, rep_manager, hnd_pc, interrupts, elapsed,
                    warned >>
    /\ UNCHANGED obsVars
    /\ UNCHANGED << warnings, start_in, replay_next, submitted >>

\* ------------------------------------------------------------------ close
\* variant: the reference is dropped before the block generator is stopped
CloseOrderDropFirst ==
    << "close_drop_blockgen", "close_stop", "close_drop_to_drop",
       "wait_for_drop" >>

\* The statements of close, in program order.
CloseOrder ==
    << "close_stop", "close_drop_blockgen", "close_drop_to_drop",
       "wait_for_drop" >>

CloseEntry == CloseOrder[1]

CloseNext(pc) ==
    LET i == CHOOSE k \in 1..Len(CloseOrder) : CloseOrder[k] = pc
    IN  CloseOrder[i + 1]

\* The caller invokes close(handle) directly.
CallClose ==
    /\ main_pc = "started"
    /\ main_pc' = CloseEntry
    /\ UNCHANGED << exit_flag, exit_mutex, conf, handler_installed, strong,
                    txgen_join_handle, bg_state, mining_pc, txgen_pc, rep_pc,
                    rep_timer, rep_manager, hnd_pc, interrupts, elapsed,
                    warned >>
    /\ UNCHANGED obsVars
    /\ UNCHANGED warnings
    /\ UNCHANGED startVars

\* BlockGenerator::stop(&blockgen)
BlockGeneratorStop(s) == "Stop"

CloseStop ==
    /\ main_pc = "close_stop"
    /\ bg_state' = BlockGeneratorStop(bg_state)
    /\ main_pc' = CloseNext(main_pc)
    /\ UNCHANGED << exit_flag, exit_mutex, conf, handler_installed, strong,
                    txgen_join_handle, mining_pc, txgen_pc, rep_pc,
                    rep_timer, rep_manager, hnd_pc, interrupts, elapsed,
                    warned >>
    /\ UNCHANGED obsVars
    /\ UNCHANGED warnings
    /\ UNCHANGED startVars

\* drop(blockgen)
CloseDropBlockgen ==
    /\ main_pc = "close_drop_blockgen"
    /\ strong' = strong \ HandleBlockgen
    /\ main_pc' = CloseNext(main_pc)
    /\ NoteRelease(strong', rep_manager)
    /\ UNCHANGED << exit_flag, exit_mutex, conf, handler_installed,
                    txgen_join_handle, bg_state, mining_pc, txgen_pc, rep_pc,
                    rep_timer, rep_manager, hnd_pc, interrupts, elapsed,
                    warned >>
    /\ UNCHANGED << final_warned, polled, alive_at_return,
                    ticks_since_release, ticks_since_exit, snap_after_exit,
                    snap_after_release >>
    /\ UNCHANGED warnings
    /\ UNCHANGED startVars

\* drop(to_drop): the bundle of owning references and the txgen join handle
CloseDropToDrop ==
    /\ main_pc = "close_drop_to_drop"
    /\ strong' = strong \ HandleToDrop
    /\ txgen_join_handle' = FALSE
    /\ main_pc' = CloseNext(main_pc)
    /\ NoteRelease(strong', rep_manager)
    /\ UNCHANGED << exit_flag, exit_mutex, conf, handler_installed, bg_state,
                    mining_pc, txgen_pc, rep_pc, rep_timer, rep_manager,
                    hnd_pc, interrupts, elapsed, warned >>
    /\ UNCHANGED << final_warned, polled, alive_at_return,
                    ticks_since_release, ticks_since_exit, snap_after_exit,
                    snap_after_release >>
    /\ UNCHANGED warnings
    /\ UNCHANGED startVars

\* ---------------------------------------------------------- wait_for_drop
\* variant: the loop has no time limit
LoopForever(e) == TRUE

\* while instant.elapsed() < max_timeout
LoopCondition(e) == e < max_timeout

\* variant: >= in place of >
WarnDueAtTimeout(w, e) == ~w /\ e >= warn_timeout

\* !warned && instant.elapsed() > warn_timeout
WarnDue(w, e) == ~w /\ e > warn_timeout

\* variant: `warned = true` is forgotten
WarnedForgotten(w, due) == w

\* warned = true, inside the if
WarnedAfter(w, due) == w \/ due

\* One evaluation of the loop condition and, when it holds, one iteration of
\* the loop body up to thread::sleep.  When wait_for_drop returns, close
\* returns; its locals are gone (and with them what was observed of this
\* call), and in run_until_closed the guard `lock` goes out of scope.
WaitForDropPoll ==
    /\ main_pc = "wait_for_drop"
    /\ IF LoopCondition(elapsed) /\ LedgerDbAlive
       THEN /\ main_pc' = "wfd_sleep"
            /\ polled' = TRUE
            /\ warned' = WarnedAfter(warned, WarnDue(warned, elapsed))
            /\ warnings' = IF WarnDue(warned, elapsed) THEN warnings + 1
                            ELSE warnings
            /\ UNCHANGED << exit_mutex, elapsed, dropped_at, final_warned,
                            alive_at_return >>
       ELSE /\ main_pc' = "exited"
            /\ polled' = (polled \/ LoopCondition(elapsed))
            /\ final_warned' = ~LoopCondition(elapsed)
            /\ alive_at_return' = LedgerDbAlive
            /\ exit_mutex' = IF exit_mutex = "main" THEN "free"
                             ELSE exit_mutex
            /\ elapsed' = 0
            /\ warned' = FALSE
            /\ warnings' = 0
            /\ dropped_at' = -1
    /\ UNCHANGED << exit_flag, conf, handler_installed, strong,
                    txgen_join_handle, bg_state, mining_pc, txgen_pc, rep_pc,
                    rep_timer, rep_manager, hnd_pc, interrupts >>
    /\ UNCHANGED << released, ticks_since_release, ticks_since_exit,
                    snap_after_exit, snap_after_release >>
    /\ UNCHANGED startVars

\* ------------------------------------------------------- run_until_closed
\* CtrlC::set_handler(...)
SetHandler ==
    /\ main_pc = "started"
    /\ handler_installed' = TRUE
    /\ main_pc' = "ruc_lock"
    /\ UNCHANGED << exit_flag, exit_mutex, conf, strong, txgen_join_handle,
                    bg_state, mining_pc, txgen_pc, rep_pc, rep_timer,
                    rep_manager, hnd_pc, interrupts, elapsed, warned >>
    /\ UNCHANGED obsVars
    /\ UNCHANGED warnings
    /\ UNCHANGED startVars

\* let mut lock = exit.0.lock();
RucLock ==
    /\ main_pc = "ruc_lock"
    /\ exit_mutex = "free"
    /\ exit_mutex' = "main"
    /\ main_pc' = "ruc_check"
    /\ UNCHANGED << exit_flag, conf, handler_installed, strong,
                    txgen_join_handle, bg_state, mining_pc, txgen_pc, rep_pc,
                    rep_timer, rep_manager, hnd_pc, interrupts, elapsed,
                    warned >>
    /\ UNCHANGED obsVars
    /\ UNCHANGED warnings
    /\ UNCHANGED startVars

\* variant: the test of the flag is inverted
MustWaitInverted(flag) == flag

\* if !*lock { exit.1.wait(&mut lock) }: the wait releases the mutex
MustWait(flag) == ~flag

RucCheck ==
    /\ main_pc = "ruc_check"
    /\ IF ~MustWait(exit_flag)
       THEN /\ main_pc' = CloseEntry
            /\ UNCHANGED exit_mutex
       ELSE /\ main_pc' = "ruc_wait"
            /\ exit_mutex' = "free"
    /\ UNCHANGED << exit_flag, conf, handler_installed, strong,
                    txgen_join_handle, bg_state, mining_pc, txgen_pc, rep_pc,
                    rep_timer, rep_manager, hnd_pc, interrupts, elapsed,
                    warned >>
    /\ UNCHANGED obsVars
    /\ UNCHANGED warnings
    /\ UNCHANGED startVars

\* the wait was notified: the mutex is taken again, then close is called
RucRelock ==
    /\ main_pc = "ruc_woken"
    /\ exit_mutex = "free"
    /\ exit_mutex' = "main"
    /\ main_pc' = CloseEntry
    /\ UNCHANGED << exit_flag, conf, handler_installed, strong,
                    txgen_join_handle, bg_state, mining_pc, txgen_pc, rep_pc,
                    rep_timer, rep_manager, hnd_pc, interrupts, elapsed,
                    warned >>
    /\ UNCHANGED obsVars
    /\ UNCHANGED warnings
    /\ UNCHANGED startVars

\* ---------------------------------------------------------- CtrlC handler
\* An external interrupt arrives; the handler thread runs one at a time.
Interrupt ==
    /\ handler_installed
    /\ hnd_pc = "idle"
    /\ interrupts < MaxInterrupts
    /\ interrupts' = interrupts + 1
    /\ hnd_pc' = "lock"
    /\ UNCHANGED << exit_flag, exit_mutex, main_pc, conf, handler_installed,
                    strong, txgen_join_handle, bg_state, mining_pc, txgen_pc,
                    rep_pc, rep_timer, rep_manager, elapsed, warned >>
    /\ UNCHANGED obsVars
    /\ UNCHANGED warnings
    /\ UNCHANGED startVars

\* variant: the handler toggles the flag
HandlerStoreToggle(old) == ~old

\* *e.0.lock() = true;
HandlerStore(old) == TRUE

HandlerSet ==
    /\ hnd_pc = "lock"
    /\ exit_mutex = "free"
    /\ exit_flag' = HandlerStore(exit_flag)
    /\ hnd_pc' = "notify"
    /\ UNCHANGED << exit_mutex, main_pc, conf, handler_installed, strong,
                    txgen_join_handle, bg_state, mining_pc, txgen_pc, rep_pc,
                    rep_timer, rep_manager, interrupts, elapsed, warned >>
    /\ UNCHANGED obsVars
    /\ UNCHANGED warnings
    /\ UNCHANGED startVars

\* The threads parked on exit.1
Waiters ==
    (IF main_pc = "ruc_wait" THEN {"main"} ELSE {})
    \cup (IF rep_pc = "waiting" THEN {"reporter"} ELSE {})

\* variant: notify_one, which wakes the thread parked first
NotifyOne(w) == IF "reporter" \in w THEN {"reporter"} ELSE w

\* e.1.notify_all(): the parked threads that are woken
NotifyAll(w) == w

HandlerNotify ==
    /\ hnd_pc = "notify"
    /\ LET woken == NotifyAll(Waiters) IN
        /\ main_pc' = IF "main" \in woken THEN "ruc_woken" ELSE main_pc
        /\ rep_pc' = IF "reporter" \in woken THEN "woken_notified"
                     ELSE rep_pc
    /\ hnd_pc' = "idle"
    /\ UNCHANGED << exit_flag, exit_mutex, conf, handler_installed, strong,
                    txgen_join_handle, bg_state, mining_pc, txgen_pc,
                    rep_timer, rep_manager, interrupts, elapsed, warned >>
    /\ UNCHANGED << final_warned, polled, alive_at_return, released,
                    dropped_at, ticks_since_release, ticks_since_exit,
                    snap_after_exit, snap_after_release >>
    /\ UNCHANGED warnings
    /\ UNCHANGED startVars

\* --------------------------------------------------------- usage reporter
\* The two tick observers run only while the reporter does.
RepObserved(pc) ==
    /\ ticks_since_release' = IF pc = "done" THEN 0 ELSE ticks_since_release
    /\ ticks_since_exit' = IF pc = "done" THEN 0 ELSE ticks_since_exit

\* let mut exit_lock = exit_clone.0.lock();
RepLock ==
    /\ rep_pc = "lock"
    /\ exit_mutex = "free"
    /\ exit_mutex' = "reporter"
    /\ rep_pc' = "locked"
    /\ UNCHANGED << exit_flag, main_pc, conf, handler_installed, strong,
                    txgen_join_handle, bg_state, mining_pc, txgen_pc,
                    rep_timer, rep_manager, hnd_pc, interrupts, elapsed,
                    warned >>
    /\ UNCHANGED obsVars
    /\ UNCHANGED warnings
    /\ UNCHANGED startVars

\* exit_clone.1.wait_for(&mut exit_lock, 5000 ms): parks, releases the mutex
RepWait ==
    /\ rep_pc = "locked"
    /\ exit_mutex' = "free"
    /\ rep_timer' = 0
    /\ rep_pc' = "waiting"
    /\ UNCHANGED << exit_flag, main_pc, conf, handler_installed, strong,
                    txgen_join_handle, bg_state, mining_pc, txgen_pc,
                    rep_manager, hnd_pc, interrupts, elapsed, warned >>
    /\ UNCHANGED obsVars
    /\ UNCHANGED warnings
    /\ UNCHANGED startVars

\* the timeout of wait_for expires
RepTimeout ==
    /\ rep_pc = "waiting"
    /\ rep_timer = report_interval
    /\ rep_pc' = "woken_timeout"
    /\ UNCHANGED << exit_flag, exit_mutex, main_pc, conf, handler_installed,
                    strong, txgen_join_handle, bg_state, mining_pc, txgen_pc,
                    rep_timer, rep_manager, hnd_pc, interrupts, elapsed,
                    warned >>
    /\ UNCHANGED obsVars
    /\ UNCHANGED warnings
    /\ UNCHANGED startVars

\* wait_for takes the mutex again and returns; not timed out: `return`
RepRelock ==
    /\ rep_pc \in {"woken_timeout", "woken_notified"}
    /\ exit_mutex = "free"
    /\ IF rep_pc = "woken_timeout"
       THEN /\ exit_mutex' = "reporter"
            /\ rep_pc' = "upgrade"
       ELSE /\ exit_mutex' = "free"
            /\ rep_pc' = "done"
    /\ RepObserved(rep_pc')
    /\ UNCHANGED << exit_flag, main_pc, conf, handler_installed, strong,
                    txgen_join_handle, bg_state, mining_pc, txgen_pc,
                    rep_timer, rep_manager, hnd_pc, interrupts, elapsed,
                    warned >>
    /\ UNCHANGED << final_warned, polled, alive_at_return, released,
                    dropped_at, snap_after_exit, snap_after_release >>
    /\ UNCHANGED warnings
    /\ UNCHANGED startVars

\* variant: the None arm does not return
ReporterContinuesAlways(alive) == TRUE

\* match storage_manager_log_weak_ptr.upgrade() { None => return, Some => .. }
ReporterContinues(alive) == alive

RepUpgrade ==
    /\ rep_pc = "upgrade"
    /\ IF ReporterContinues(StorageManagerAlive)
       THEN /\ rep_manager' = TRUE
            /\ rep_pc' = "log_usage"
            /\ UNCHANGED exit_mutex
       ELSE /\ rep_pc' = "done"
            /\ exit_mutex' = "free"
            /\ UNCHANGED rep_manager
    /\ RepObserved(rep_pc')
    /\ UNCHANGED << exit_flag, main_pc, conf, handler_installed, strong,
                    txgen_join_handle, bg_state, mining_pc, txgen_pc,
                    rep_timer, hnd_pc, interrupts, elapsed, warned >>
    /\ UNCHANGED << final_warned, polled, alive_at_return, released,
                    dropped_at, snap_after_exit, snap_after_release >>
    /\ UNCHANGED warnings
    /\ UNCHANGED startVars

\* manager.log_usage()
RepLogUsage ==
    /\ rep_pc = "log_usage"
    /\ rep_pc' = "drop"
    /\ snap_after_exit' = (snap_after_exit \/ exit_flag)
    /\ snap_after_release' = (snap_after_release \/ released)
    /\ UNCHANGED << exit_flag, exit_mutex, main_pc, conf, handler_installed,
                    strong, txgen_join_handle, bg_state, mining_pc, txgen_pc,
                    rep_timer, rep_manager, hnd_pc, interrupts, elapsed,
                    warned >>
    /\ UNCHANGED << final_warned, polled, alive_at_return, released,
                    dropped_at, ticks_since_release, ticks_since_exit >>
    /\ UNCHANGED warnings
    /\ UNCHANGED startVars

\* variant: the upgraded reference is kept across iterations
ManagerKept(m) == m

\* Some(manager) => manager.log_usage(): `manager` is gone after the arm
ManagerAfterArm(m) == FALSE

\* end of the match arm and of the loop body: `manager`, then `exit_lock`,
\* go out of scope
RepDrop ==
    /\ rep_pc = "drop"
    /\ rep_manager' = ManagerAfterArm(rep_manager)
    /\ exit_mutex' = "free"
    /\ rep_pc' = "lock"
    /\ NoteRelease(strong, rep_manager')
    /\ UNCHANGED << exit_flag, main_pc, conf, handler_installed, strong,
                    txgen_join_handle, bg_state, mining_pc, txgen_pc,
                    rep_timer, hnd_pc, interrupts, elapsed, warned >>
    /\ UNCHANGED << final_warned, polled, alive_at_return,
                    ticks_since_release, ticks_since_exit, snap_after_exit,
                    snap_after_release >>
    /\ UNCHANGED warnings
    /\ UNCHANGED startVars

\* ------------------------------------------------- foreground task threads
\* The mining loop observes the stop of the block generator and the thread
\* closure ends, dropping `bg`.
MiningObservesStop(s) == s = "Stop"

MiningExit ==
    /\ mining_pc = "mining"
    /\ MiningObservesStop(bg_state)
    /\ mining_pc' = "exited"
    /\ strong' = strong \ {"mining.bg"}
    /\ NoteRelease(strong', rep_manager)
    /\ UNCHANGED << exit_flag, exit_mutex, main_pc, conf, handler_installed,
                    txgen_join_handle, bg_state, txgen_pc, rep_pc, rep_timer,
                    rep_manager, hnd_pc, interrupts, elapsed, warned >>
    /\ UNCHANGED << final_warned, polled, alive_at_return,
                    ticks_since_release, ticks_since_exit, snap_after_exit,
                    snap_after_release >>
    /\ UNCHANGED warnings
    /\ UNCHANGED startVars

\* generate_transactions returns (or fails) and the thread closure ends,
\* dropping `txgen_clone`; it may also never return.
TxgenExit ==
    /\ txgen_pc = "running"
    /\ txgen_pc' = "exited"
    /\ strong' = strong \ {"txgen.txgen_clone"}
    /\ NoteRelease(strong', rep_manager)
    /\ UNCHANGED << exit_flag, exit_mutex, main_pc, conf, handler_installed,
                    txgen_join_handle, bg_state, mining_pc, rep_pc, rep_timer,
                    rep_manager, hnd_pc, interrupts, elapsed, warned >>
    /\ UNCHANGED << final_warned, polled, alive_at_return,
                    ticks_since_release, ticks_since_exit, snap_after_exit,
                    snap_after_release >>
    /\ UNCHANGED warnings
    /\ UNCHANGED startVars

\* ------------------------------------------------------------------- time
\* The reporter has a statement to run that takes no time.
RepRunnable ==
    \/ rep_pc \in {"locked", "upgrade", "log_usage", "drop"}
    \/ rep_pc \in {"lock", "woken_timeout", "woken_notified"}
         /\ exit_mutex = "free"
    \/ rep_pc = "waiting" /\ rep_timer = report_interval

RepRunning == rep_pc \notin {"none", "done"}

\* One second passes: thread::sleep(sleep_duration) of wait_for_drop ends,
\* the reporter's wait_for is one second older.
Tick ==
    /\ main_pc # "wait_for_drop"
    /\ ~RepRunnable
    /\ main_pc = "wfd_sleep" \/ rep_pc = "waiting"
    /\ IF main_pc = "wfd_sleep"
       THEN /\ elapsed' = elapsed + sleep_duration
            /\ main_pc' = "wait_for_drop"
       ELSE UNCHANGED << elapsed, main_pc >>
    /\ rep_timer' = IF rep_pc = "waiting" THEN rep_timer + 1 ELSE rep_timer
    /\ ticks_since_release' =
         IF released /\ RepRunning
         THEN Min(ticks_since_release + 1, MaxObserved)
         ELSE ticks_since_release
    /\ ticks_since_exit' =
         IF exit_flag /\ RepRunning
         THEN Min(ticks_since_exit + 1, MaxObserved)
         ELSE ticks_since_exit
    /\ UNCHANGED << exit_flag, exit_mutex, conf, handler_installed, strong,
                    txgen_join_handle, bg_state, mining_pc, txgen_pc, rep_pc,
                    rep_manager, hnd_pc, interrupts, warned >>
    /\ UNCHANGED << final_warned, polled, alive_at_return, released,
                    dropped_at, snap_after_exit, snap_after_release >>
    /\ UNCHANGED warnings
    /\ UNCHANGED startVars

Next ==
    \/ Start
    \/ CallClose
    \/ CloseStop
    \/ CloseDropBlockgen
    \/ CloseDropToDrop
    \/ WaitForDropPoll
    \/ SetHandler
    \/ RucLock
    \/ RucCheck
    \/ RucRelock
    \/ Interrupt
    \/ HandlerSet
    \/ HandlerNotify
    \/ RepLock
    \/ RepWait
    \/ RepTimeout
    \/ RepRelock
    \/ RepUpgrade
    \/ RepLogUsage
    \/ RepDrop
    \/ MiningExit
    \/ TxgenExit
    \/ Tick

Spec == Init /\ [][Next]_vars

\* Scheduling: every thread that can run does run, time passes, and a thread
\* that asks for the exit mutex gets it when it is free again and again
\* (parking_lot mutexes are eventually fair).  Nothing forces the caller to
\* shut down, an interrupt to arrive, or a foreground task to end.
MainStep ==
    CloseStop \/ CloseDropBlockgen \/ CloseDropToDrop \/ WaitForDropPoll
    \/ RucCheck

MainLockStep == RucLock \/ RucRelock

HandlerStep == HandlerSet \/ HandlerNotify

RepStep ==
    RepLock \/ RepWait \/ RepTimeout \/ RepRelock \/ RepUpgrade
    \/ RepLogUsage \/ RepDrop

FairSpec ==
    /\ Spec
    /\ WF_vars(MainStep)
    /\ SF_vars(MainLockStep)
    /\ SF_vars(HandlerStep)
    /\ WF_vars(RepStep)
    /\ WF_vars(Tick)

\* ------------------------------------------------------- start, in stages
\* StartSpec runs FullClient::start stage by stage, with the threads it
\* spawns, for every input: which collaborator fails, the mining and txgen
\* configuration, the test-chain file.  Spec above takes a successful start
\* in one step.

\* The stages of start whose collaborator can fail.
FailingStages ==
    {"net_config", "open_database", "genesis_load", "network_start",
     "sync_register", "data_propagation", "replay_file", "rpc_bind"}

\* Sequences of at most n booleans.
SeqsUpTo(n) == UNION {[1..k -> BOOLEAN] : k \in 0..n}

StartInputs ==
    {i \in [failing : FailingStages \cup {"none"}, mining_author : BOOLEAN,
            test_chain : BOOLEAN, rpc_blocks : SeqsUpTo(MaxRecords)] :
        /\ ~i.test_chain => i.rpc_blocks = << >>
        /\ i.failing = "replay_file" => (i.test_chain /\ i.rpc_blocks = << >>)}

StartInit ==
    /\ exit_flag = FALSE
    /\ exit_mutex = "free"
    /\ main_pc = "init"
    /\ conf \in [start_mining : BOOLEAN, generate_tx : BOOLEAN]
    /\ handler_installed = FALSE
    /\ strong = {}
    /\ txgen_join_handle = FALSE
    /\ bg_state = "Start"
    /\ mining_pc = "none"
    /\ txgen_pc = "none"
    /\ rep_pc = "none"
    /\ rep_timer = 0
    /\ rep_manager = FALSE
    /\ hnd_pc = "idle"
    /\ interrupts = 0
    /\ elapsed = 0
    /\ warned = FALSE
    /\ final_warned = FALSE
    /\ polled = FALSE
    /\ alive_at_return = FALSE
    /\ released = FALSE
    /\ dropped_at = -1
    /\ ticks_since_release = 0
    /\ ticks_since_exit = 0
    /\ snap_after_exit = FALSE
    /\ snap_after_release = FALSE
    /\ warnings = 0
    /\ start_in \in StartInputs
    /\ start_pc = "entry"
    /\ start_outcome = "running"
    /\ blockgen_built = FALSE
    /\ replay_next = 0
    /\ submitted = << >>

\* What start never touches.
startKept == << exit_flag, exit_mutex, main_pc, conf, handler_installed,
                hnd_pc, interrupts, elapsed, warned, final_warned, polled,
                alive_at_return, ticks_since_release, ticks_since_exit,
                snap_after_exit, snap_after_release, warnings, start_in >>

\* The owning references held by the locals of start (ledger_db,
\* storage_manager, data_man, txpool, consensus, sync, txgen, blockgen, ...).
StartLocals == {"start.locals"}

\* How the failure of a stage leaves start: `?` and `return Err` return the
\* error, unwrap() and panic! unwind the calling thread.
FailureMode(stage) ==
    IF stage \in {"network_start", "sync_register", "mining_config"}
    THEN "panic" ELSE "err"

\* variant: a failing start stops the block generator
StopOnFailure(s) == "Stop"

\* start has no teardown on its way out: the block generator is left alone
LeftOnFailure(s) == s

\* start leaves with a failure of `stage`: its locals (the txgen join handle
\* among them) are dropped, the threads it spawned own their clones.
StartFail(stage) ==
    /\ start_outcome' = FailureMode(stage)
    /\ start_pc' = "returned"
    /\ strong' = strong \ StartLocals
    /\ txgen_join_handle' = FALSE
    /\ bg_state' = LeftOnFailure(bg_state)
    /\ NoteRelease(strong', rep_manager)
    /\ UNCHANGED << mining_pc, txgen_pc, rep_pc, rep_timer, rep_manager,
                    blockgen_built, replay_next, submitted >>
    /\ UNCHANGED startKept

\* start goes on to the stage `next`, nothing else changed
StartGoes(next) ==
    /\ start_pc' = next
    /\ UNCHANGED << strong, txgen_join_handle, bg_state, released,
                    dropped_at, mining_pc, txgen_pc, rep_pc, rep_timer,
                    rep_manager, start_outcome, blockgen_built, replay_next,
                    submitted >>
    /\ UNCHANGED startKept

\* let network_config = conf.net_config()?;
StartNetConfig ==
    /\ start_pc = "entry"
    /\ IF start_in.failing = "net_config"
       THEN StartFail("net_config")
       ELSE StartGoes("open_database")

\* db::open_database(..).map_err(..)?; the storage manager is built on it
StartOpenDatabase ==
    /\ start_pc = "open_database"
    /\ IF start_in.failing = "open_database"
       THEN StartFail("open_database")
       ELSE /\ strong' = StartLocals
            /\ start_pc' = "spawn_reporter"
            /\ UNCHANGED << txgen_join_handle, bg_state, released,
                            dropped_at, mining_pc, txgen_pc, rep_pc,
                            rep_timer, rep_manager, start_outcome,
                            blockgen_built, replay_next, submitted >>
            /\ UNCHANGED startKept

\* thread::spawn(move || loop { .. }) of the usage reporter
StartSpawnReporter ==
    /\ start_pc = "spawn_reporter"
    /\ rep_pc' = "lock"
    /\ start_pc' = "genesis"
    /\ UNCHANGED << strong, txgen_join_handle, bg_state, released,
                    dropped_at, mining_pc, txgen_pc, rep_timer, rep_manager,
                    start_outcome, blockgen_built, replay_next, submitted >>
    /\ UNCHANGED startKept

\* genesis::load_file(file)?; then genesis block, data manager, transaction
\* pool and consensus graph are built
StartGenesis ==
    /\ start_pc = "genesis"
    /\ IF start_in.failing = "genesis_load"
       THEN StartFail("genesis_load")
       ELSE StartGoes("network_start")

\* network.start().unwrap();
StartNetwork ==
    /\ start_pc = "network_start"
    /\ IF start_in.failing = "network_start"
       THEN StartFail("network_start")
       ELSE StartGoes("sync_register")

\* sync.register().unwrap();
StartSyncRegister ==
    /\ start_pc = "sync_register"
    /\ IF start_in.failing = "sync_register"
       THEN StartFail("sync_register")
       ELSE StartGoes("data_propagation")

\* DataPropagation::register(dp, network.clone())?;
StartDataPropagation ==
    /\ start_pc = "data_propagation"
    /\ IF start_in.failing = "data_propagation"
       THEN StartFail("data_propagation")
       ELSE StartGoes("replay_load")

\* variant: the empty file is not rejected
IsEmptyNever(blocks) == FALSE

\* rpc_blocks.is_empty()
IsEmpty(blocks) == Len(blocks) = 0

\* variant: no record is skipped
ReplayRecordsAll(blocks) == [i \in 1..Len(blocks) |-> i]

\* rpc_blocks.into_iter().skip(1): the records the loop visits, by position
ReplayRecords(blocks) ==
    IF Len(blocks) = 0 THEN << >>
    ELSE [i \in 1..(Len(blocks) - 1) |-> i + 1]

\* File::open, serde_json::from_reader, the is_empty check
StartReplayLoad ==
    /\ start_pc = "replay_load"
    /\ IF ~start_in.test_chain
       THEN StartGoes("block_generator")
       ELSE IF start_in.failing = "replay_file"
               \/ IsEmpty(start_in.rpc_blocks)
       THEN StartFail("replay_file")
       ELSE /\ replay_next' = 1
            /\ start_pc' = "replay_loop"
            /\ UNCHANGED << strong, txgen_join_handle, bg_state, released,
                            dropped_at, mining_pc, txgen_pc, rep_pc,
                            rep_timer, rep_manager, start_outcome,
                            blockgen_built, submitted >>
            /\ UNCHANGED startKept

\* variant: a record that does not convert is passed over
ConvertNeverFails(convertible) == FALSE

\* rpc_block.into_primitive() is Err
ConvertFails(convertible) == ~convertible

\* One turn of the for loop: the next record is converted and submitted with
\* sync.on_mined_block, or the conversion error is returned; after the last
\* record start goes on.
StartReplayBlock ==
    /\ start_pc = "replay_loop"
    /\ LET todo == ReplayRecords(start_in.rpc_blocks) IN
       IF replay_next > Len(todo)
       THEN StartGoes("block_generator")
       ELSE IF ConvertFails(start_in.rpc_blocks[todo[replay_next]])
       THEN StartFail("replay_convert")
       ELSE /\ submitted' = Append(submitted, todo[replay_next])
            /\ replay_next' = replay_next + 1
            /\ UNCHANGED << strong, txgen_join_handle, bg_state, released,
                            dropped_at, mining_pc, txgen_pc, rep_pc,
                            rep_timer, rep_manager, start_pc, start_outcome,
                            blockgen_built >>
            /\ UNCHANGED startKept

\* BlockGenerator::new(.., maybe_author.clone().unwrap_or_default())
StartBlockGenerator ==
    /\ start_pc = "block_generator"
    /\ blockgen_built' = TRUE
    /\ start_pc' = "mining"
    /\ UNCHANGED << strong, txgen_join_handle, bg_state, released,
                    dropped_at, mining_pc, txgen_pc, rep_pc, rep_timer,
                    rep_manager, start_outcome, replay_next, submitted >>
    /\ UNCHANGED startKept

\* if conf.raw_conf.start_mining { if maybe_author.is_none() { panic!(..) }
\* .. spawn the mining thread with bg = blockgen.clone() }
StartMining ==
    /\ start_pc = "mining"
    /\ IF ~conf.start_mining
       THEN StartGoes("txgen")
       ELSE IF ~start_in.mining_author
       THEN StartFail("mining_config")
       ELSE /\ mining_pc' = "mining"
            /\ strong' = strong \cup {"mining.bg"}
            /\ start_pc' = "txgen"
            /\ UNCHANGED << txgen_join_handle, bg_state, released,
                            dropped_at, txgen_pc, rep_pc, rep_timer,
                            rep_manager, start_outcome, blockgen_built,
                            replay_next, submitted >>
            /\ UNCHANGED startKept

\* if tx_conf.generate_tx { Some(spawn the txgen thread) } else { None }
StartTxgen ==
    /\ start_pc = "txgen"
    /\ IF ~conf.generate_tx
       THEN StartGoes("rpc")
       ELSE /\ txgen_pc' = "running"
            /\ strong' = strong \cup {"txgen.txgen_clone"}
            /\ txgen_join_handle' = TRUE
            /\ start_pc' = "rpc"
            /\ UNCHANGED << bg_state, released, dropped_at, mining_pc,
                            rep_pc, rep_timer, rep_manager, start_outcome,
                            blockgen_built, replay_next, submitted >>
            /\ UNCHANGED startKept

\* new_http(..)?; new_tcp(..)?; new_http(..)?;
StartRpc ==
    /\ start_pc = "rpc"
    /\ IF start_in.failing = "rpc_bind"
       THEN StartFail("rpc_bind")
       ELSE StartGoes("return")

\* Ok(FullClientHandle { .. }): the handle takes over the references
StartReturn ==
    /\ start_pc = "return"
    /\ start_outcome' = "ok"
    /\ start_pc' = "returned"
    /\ strong' = (strong \ StartLocals) \cup HandleBlockgen \cup HandleToDrop
    /\ UNCHANGED << txgen_join_handle, bg_state, released, dropped_at,
                    mining_pc, txgen_pc, rep_pc, rep_timer, rep_manager,
                    blockgen_built, replay_next, submitted >>
    /\ UNCHANGED startKept

StartNext ==
    \/ StartNetConfig
    \/ StartOpenDatabase
    \/ StartSpawnReporter
    \/ StartGenesis
    \/ StartNetwork
    \/ StartSyncRegister
    \/ StartDataPropagation
    \/ StartReplayLoad
    \/ StartReplayBlock
    \/ StartBlockGenerator
    \/ StartMining
    \/ StartTxgen
    \/ StartRpc
    \/ StartReturn
    \/ RepLock
    \/ RepWait
    \/ RepTimeout
    \/ RepRelock
    \/ RepUpgrade
    \/ RepLogUsage
    \/ RepDrop
    \/ TxgenExit
    \/ Tick

StartSpec == StartInit /\ [][StartNext]_vars

\* --------------------------------------------------------------- claims
InClose ==
    main_pc \in {"close_stop", "close_drop_blockgen", "close_drop_to_drop",
                 "wait_for_drop", "wfd_sleep"}

CloseHasReturned == main_pc = "exited"

\* C1: once close has been called it returns, whatever the other owners of
\* the storage handle do, and wait_for_drop never polls for more than
\* max_timeout seconds.
C1_CloseAlwaysReturns ==
    /\ [](elapsed <= max_timeout)
    /\ (InClose ~> CloseHasReturned)

\* close has returned after max_timeout seconds while the transaction
\* generator task still owns the storage handle
C1_Witness ==
    /\ main_pc = "exited"
    /\ final_warned
    /\ "txgen.txgen_clone" \in strong

\* C2: when mining was enabled, the mining loop has exited by the time
\* wait_for_drop polls the storage handle for the first time.
C2_MiningExitedBeforeFirstPoll ==
    (polled /\ conf.start_mining) => mining_pc = "exited"

\* C3: once the exit flag is true the reporter logs no usage snapshot and is
\* gone within one report interval.
C3_ReporterStopsOnExit ==
    /\ ~snap_after_exit
    /\ (exit_flag /\ RepRunning) => ticks_since_exit <= report_interval

\* C4: while the exit flag is not set, the reporter logs no usage snapshot
\* after the storage manager was released and is gone within one report
\* interval of the release.
C4_ReporterStopsOnRelease ==
    /\ ~snap_after_release
    /\ (released /\ ~exit_flag /\ RepRunning)
           => ticks_since_release <= report_interval

\* the reporter has returned after the release, the exit flag never set
C4_Witness ==
    /\ released
    /\ ~exit_flag
    /\ rep_pc = "done"

\* completed invocations of the CtrlC handler
Handled == IF hnd_pc = "idle" THEN interrupts ELSE interrupts - 1

\* C5: the exit flag never goes back to false, and no step of the handler
\* for an interrupt after the first changes the flag or what the main task
\* and the shutdown have done.
C5_ExitFlagMonotonic ==
    [][ /\ exit_flag => exit_flag'
        /\ (hnd_pc # "idle" /\ hnd_pc' # hnd_pc /\ Handled >= 1)
              => /\ exit_flag' = exit_flag
                 /\ main_pc' = main_pc
                 /\ strong' = strong
                 /\ bg_state' = bg_state
                 /\ elapsed' = elapsed ]_vars

\* a second interrupt has been handled completely
C5_Witness ==
    /\ interrupts = 2
    /\ hnd_pc = "idle"
    /\ exit_flag

CloseInvoked == InClose \/ main_pc = "exited"

\* C6: after an interrupt, whenever it arrives once the handler is
\* installed, the main task gets to call close.
C6_InterruptLeadsToClose == (interrupts >= 1) ~> CloseInvoked

\* the main task was parked in the wait and the handler has woken it
C6_Witness ==
    /\ main_pc = "ruc_woken"
    /\ exit_flag

\* C7: run_until_closed runs close only with the exit flag set.
C7_CloseOnlyAfterExit == (handler_installed /\ InClose) => exit_flag

\* run_until_closed has just called close
C7_Witness ==
    /\ handler_installed
    /\ main_pc = CloseEntry
    /\ exit_mutex = "main"
    /\ exit_flag

HandleOwned == strong \cap (HandleBlockgen \cup HandleToDrop)

\* C8: close stops the block generator before it drops the handle's
\* reference to it, drops that reference before the bundle and the txgen
\* join handle, and has dropped all of them before the first poll.
C8_CloseOrder ==
    main_pc # "init" =>
        /\ (strong \cap HandleBlockgen = {}) => bg_state = "Stop"
        /\ (strong \cap HandleToDrop = {}) => strong \cap HandleBlockgen = {}
        /\ (conf.generate_tx /\ ~txgen_join_handle)
               => strong \cap HandleBlockgen = {}
        /\ polled => (HandleOwned = {} /\ ~txgen_join_handle)

\* the first poll has been made and found the storage handle still owned
C8_Witness ==
    /\ main_pc = "wfd_sleep"
    /\ elapsed = 0
    /\ polled
    /\ conf.generate_tx

\* C9: close logs the final warning exactly when the storage handle is still
\* alive at the moment the max_timeout seconds are over.
C9_FinalWarningIffStillAlive ==
    main_pc = "exited" => (final_warned <=> alive_at_return)

InWaitForDrop == main_pc \in {"wait_for_drop", "wfd_sleep"}

\* C10: when the storage handle was released no later than warn_timeout
\* seconds into the polling, wait_for_drop does not sleep again after the
\* release, polls at most sleep_duration after it, has logged no warning,
\* and returns from that poll without the final warning.
C10_EarlyReleaseCleanReturn ==
    /\ []((InWaitForDrop /\ dropped_at \in 0..warn_timeout)
            => /\ ~warned
               /\ ~final_warned
               /\ main_pc = "wfd_sleep" => elapsed = dropped_at
               /\ elapsed <= dropped_at + sleep_duration)
    /\ [][(main_pc = "wait_for_drop" /\ main_pc' # main_pc
               /\ dropped_at \in 0..warn_timeout)
            => (main_pc' = "exited" /\ ~final_warned'
                /\ ~alive_at_return')]_vars

\* released during the tenth second of polling, observed by the next poll
C10_Witness ==
    /\ main_pc = "wait_for_drop"
    /\ dropped_at = warn_timeout - 1
    /\ elapsed = warn_timeout

\* C15: the exit mutex is held neither while the reporter logs a usage
\* snapshot nor while the main task runs close (stop, drops, polls, sleeps).
C15_ExitLockShortHeld ==
    /\ ~(exit_mutex = "reporter" /\ rep_pc = "log_usage")
    /\ ~(exit_mutex = "main" /\ InClose)

\* C18: once the storage manager and ledger_db have lost their last owner
\* they stay dead, and when close has returned without the final warning
\* ledger_db has no owner, then and ever after.
C18_ReleaseIsPermanent ==
    /\ released => ~LedgerDbAlive
    /\ (main_pc = "exited" /\ ~final_warned) => ~LedgerDbAlive

\* close returned cleanly after the txgen task had given up its reference,
\* and the reporter has since tried its upgrade and returned
C18_Witness ==
    /\ main_pc = "exited"
    /\ ~final_warned
    /\ released
    /\ txgen_pc = "exited"
    /\ rep_pc = "done"

\* C19: the reporter owns the storage manager only between its upgrade and
\* the end of the match arm: never while it waits, asks for the mutex or
\* after it has returned.
C19_ReporterOwnsOnlyWhileLogging ==
    rep_manager => rep_pc \in {"log_usage", "drop"}

\* the reporter has logged a snapshot and is parked in wait_for again
C19_Witness ==
    /\ rep_pc = "waiting"
    /\ snap_after_exit
    /\ ~rep_manager

\* C16: in one call of close the "taking longer" warning is logged at most
\* once, only by a poll later than warn_timeout that finds ledger_db alive,
\* and that poll goes on to sleep and poll again.
C16_WarnOnceAfterTimeout ==
    /\ [](warnings <= 1)
    /\ [][warnings' > warnings
            => /\ main_pc = "wait_for_drop"
               /\ elapsed > warn_timeout
               /\ LedgerDbAlive
               /\ main_pc' = "wfd_sleep"]_vars

\* the warning was logged once and two more polls have been made since
C16_Witness ==
    /\ warnings = 1
    /\ main_pc = "wfd_sleep"
    /\ elapsed = warn_timeout + 3

\* ------------------------------------------------ claims about start

\* start is past the replay stage
PastReplay ==
    \/ start_pc \in {"block_generator", "mining", "txgen", "rpc", "return"}
    \/ start_pc = "returned" /\ blockgen_built

\* nothing before the replay loop fails
ReachesReplay == start_in.failing \in {"none", "rpc_bind"}

\* s is a prefix of t
IsPrefix(s, t) ==
    /\ Len(s) <= Len(t)
    /\ \A i \in 1..Len(s) : s[i] = t[i]

\* the positions 2..n in order
FromSecond(n) == [i \in 1..(n - 1) |-> i + 1]

\* every record after the first converts
AllConvert(blocks) == \A i \in 2..Len(blocks) : blocks[i]

\* the first record after the first that does not convert
FirstBad(blocks) ==
    CHOOSE k \in 2..Len(blocks) :
        /\ ~blocks[k]
        /\ \A j \in 2..(k - 1) : blocks[j]

\* C11: with a test-chain file of N >= 2 records that all convert, start
\* submits the records 2..N to the synchronization graph, each once and in
\* file order, and never the first record: what is submitted is always a
\* prefix of <<2..N>> and is all of it once start is past the replay.
C11_ReplaySkipsFirst ==
    (/\ start_in.test_chain
     /\ Len(start_in.rpc_blocks) >= 2
     /\ AllConvert(start_in.rpc_blocks))
    => /\ IsPrefix(submitted, FromSecond(Len(start_in.rpc_blocks)))
       /\ PastReplay => submitted = FromSecond(Len(start_in.rpc_blocks))

C11_Witness ==
    /\ start_outcome = "ok"
    /\ Len(start_in.rpc_blocks) = 3
    /\ submitted = << 2, 3 >>

\* C12: with a test-chain file of zero records, start submits nothing,
\* never gets past the replay, and returns an error, so that no handle
\* is produced.
C12_EmptyChainRejected ==
    (start_in.test_chain /\ Len(start_in.rpc_blocks) = 0)
    => /\ submitted = << >>
       /\ ~PastReplay
       /\ start_outcome # "ok"
       /\ (start_pc = "returned" /\ ReachesReplay) => start_outcome = "err"

C12_Witness ==
    /\ start_in.test_chain
    /\ start_in.failing = "none"
    /\ Len(start_in.rpc_blocks) = 0
    /\ start_pc = "returned"
    /\ start_outcome = "err"
    /\ rep_pc # "none"

\* C13: with mining enabled and no miner address, start returns a
\* mining-configuration error before the block generator is built and
\* before the mining task is spawned.
C13_MiningConfigErrorReturned ==
    (/\ conf.start_mining
     /\ ~start_in.mining_author
     /\ start_in.failing = "none"
     /\ start_pc = "returned")
    => /\ start_outcome = "err"
       /\ ~blockgen_built
       /\ mining_pc = "none"

\* C14: every failure of start is returned to the caller as an error
\* value; start never aborts the calling task.
C14_FailuresAreReturned ==
    /\ start_outcome # "panic"
    /\ (start_pc = "returned" /\ start_in.failing # "none")
       => start_outcome = "err"

\* start has left with a failure
StartFailed == start_pc = "returned" /\ start_outcome \in {"err", "panic"}

\* C17: a failing start does no teardown: the block generator is not
\* stopped, the exit flag stays clear, a spawned mining task keeps mining
\* with its reference, a running transaction generator keeps its
\* reference, and the reporter goes on while the storage manager lives.
C17_NoRollbackOnFailure ==
    StartFailed
    => /\ bg_state = "Start"
       /\ ~exit_flag
       /\ mining_pc \in {"none", "mining"}
       /\ mining_pc = "mining" => "mining.bg" \in strong
       /\ txgen_pc = "running" => "txgen.txgen_clone" \in strong
       /\ (rep_pc = "done") => ~LedgerDbAlive

C17_Witness ==
    /\ StartFailed
    /\ start_in.failing = "rpc_bind"
    /\ mining_pc = "mining"
    /\ txgen_pc = "running"
    /\ rep_pc = "log_usage"
    /\ bg_state = "Start"

\* C20: when the record k >= 2 is the first that does not convert, start
\* submits the records 2..k-1 and no other, never gets past the replay,
\* and returns the conversion error.
C20_ConversionErrorStopsReplay ==
    (/\ start_in.test_chain
     /\ Len(start_in.rpc_blocks) >= 2
     /\ ~AllConvert(start_in.rpc_blocks))
    => /\ IsPrefix(submitted, FromSecond(FirstBad(start_in.rpc_blocks) - 1))
       /\ ~PastReplay
       /\ start_outcome # "ok"
       /\ (start_pc = "returned" /\ ReachesReplay)
          => /\ start_outcome = "err"
             /\ submitted = FromSecond(FirstBad(start_in.rpc_blocks) - 1)

C20_Witness ==
    /\ start_pc = "returned"
    /\ start_outcome = "err"
    /\ start_in.rpc_blocks = << TRUE, TRUE, FALSE >>
    /\ submitted = << 2 >>

====
